---- MODULE Spec2Model ----
(***************************************************************************)
(* Model of backend/pkg/kafka/describe_consumer_groups.go:                 *)
(* Service.DescribeConsumerGroups with its worker goroutines, the          *)
(* goroutine that closes the result channel, the aggregation loop, and the *)
(* converters convertSaramaGroupDescriptions and convertGroupMembers.      *)
(*                                                                         *)
(* Go strings that the code compares with < (group IDs, topic names) are   *)
(* sequences of character codes compared lexicographically by LexLess.     *)
(* Go map iteration (range over a map) and sort.Slice on equal keys are    *)
(* nondeterministic: the operators below return the SET of results the     *)
(* build can produce and the actions pick one.                             *)
(***************************************************************************)
EXTENDS Integers, Sequences, FiniteSets, TLC

\* ---------------------------------------------------------------- bounds
\* longest input sequence of group IDs
MaxGroups == 3
\* number of brokers of the cluster (broker IDs 1..MaxBrokers)
MaxBrokers == 2

\* ------------------------------------------------------------ the inputs
BrokerIDs == 1..MaxBrokers

\* "ab", "b"
GroupIDs == {<<1, 2>>, <<2>>}

\* "t", "u"
TopicT == <<1>>
TopicU == <<2>>

GroupInputs == UNION {[1..n -> GroupIDs] : n \in 0..MaxGroups}

\* sarama.ErrNoError and one of the other KError codes
ErrNoError == 0
ErrNotCoordinator == 16

\* ---------------------------------------------------------- Go helpers
\* s < t on Go strings
RECURSIVE LexLess(_, _)
LexLess(s, t) ==
    IF t = <<>> THEN FALSE
    ELSE IF s = <<>> THEN TRUE
    ELSE IF Head(s) < Head(t) THEN TRUE
    ELSE IF Head(t) < Head(s) THEN FALSE
    ELSE LexLess(Tail(s), Tail(t))

\* the orders in which a range statement may visit the keys S of a map
RECURSIVE RangeOrders(_)
RangeOrders(S) ==
    IF S = {} THEN {<<>>}
    ELSE UNION {{<<x>> \o o : o \in RangeOrders(S \ {x})} : x \in S}

\* what sort.Slice(s, less) may leave in s, less[<<i, j>>] telling whether
\* s[i] is less than s[j]: a permutation of s in which no later element is
\* less than an earlier one (the sort is not stable)
SortSlice(s, less) ==
    {[k \in DOMAIN s |-> s[q[k]]] : q \in
        {o \in RangeOrders(DOMAIN s) :
            \A j, k \in DOMAIN s : j < k => ~less[<<o[k], o[j]>>]}}

Range(f) == {f[x] : x \in DOMAIN f}

\* ---------------------------------------------------------- Go values
\* an error value; NilError is Go's nil error
NilError == [kind |-> "nil", broker |-> 0, group |-> <<>>, code |-> ErrNoError]
\* the error s.Client.Coordinator(group) returns
CoordinatorError(group) ==
    [kind |-> "coordinator", broker |-> 0, group |-> group, code |-> ErrNoError]
\* the error broker.DescribeGroups(req) returns
TransportError(id) ==
    [kind |-> "transport", broker |-> id, group |-> <<>>, code |-> ErrNoError]
\* a sarama.KError carried by a raw group record
KError(code) == [kind |-> "kerror", broker |-> 0, group |-> <<>>, code |-> code]

\* what m.GetMemberAssignment() returns for a member: the decoded
\* assignment and the decoder's error; a failed decode may leave the topics
\* it had read before the failure in the map
NoTopics == [t \in {} |-> <<>>]
DecodedFull == [Topics |-> (TopicU :> <<2, 0, 1>> @@ TopicT :> <<1>>), Err |-> FALSE]
DecodedNone == [Topics |-> NoTopics, Err |-> FALSE]
FailedPartial == [Topics |-> (TopicU :> <<1, 0>>), Err |-> TRUE]

\* sarama.GroupMemberDescription
RawMember(clientId, decoded) ==
    [ClientId |-> clientId, ClientHost |-> "/10.0.0.1", MemberAssignment |-> decoded]

NoMembers == [m \in {} |-> RawMember("c", DecodedNone)]

\* sarama.GroupDescription: the raw records a broker may return for group g:
\* one with a group-level error code, a consumer group with a member whose
\* payload decodes and one whose payload does not, and a group of another
\* protocol type
RawKinds == {"error", "consumer", "connect"}

RawGroup(g, kind) ==
    CASE kind = "error" ->
           [GroupId |-> g, Err |-> ErrNotCoordinator, State |-> "", ProtocolType |-> "",
            Protocol |-> "", Members |-> NoMembers]
      [] kind = "consumer" ->
           [GroupId |-> g, Err |-> ErrNoError, State |-> "Stable",
            ProtocolType |-> "consumer", Protocol |-> "range",
            Members |-> ("m1" :> RawMember("c1", DecodedFull)
                         @@ "m2" :> RawMember("c2", FailedPartial))]
      [] kind = "connect" ->
           [GroupId |-> g, Err |-> ErrNoError, State |-> "Stable",
            ProtocolType |-> "connect", Protocol |-> "default",
            Members |-> ("m1" :> RawMember("c1", DecodedFull))]

\* ---------------------------------------------------------- converters
\* a converter that tries to decode the payload of every protocol type
AnyProtocol(protocolType) == TRUE

\* line 158: only groups of protocol type "consumer" are decoded
IsConsumerProtocol(protocolType) == protocolType = "consumer"

\* a converter that leaves the partition IDs as decoded
KeepPartitionOrder(partitionIDs) == partitionIDs

\* line 165: sort.Slice(partitionIDs, ...) by value
SortPartitionIDs(partitionIDs) ==
    CHOOSE ids \in SortSlice(partitionIDs,
                             [p \in (DOMAIN partitionIDs) \X (DOMAIN partitionIDs) |->
                                 partitionIDs[p[1]] < partitionIDs[p[2]]]) : TRUE

\* lines 157-178: the assignment lists convertGroupMembers may build for
\* member m, one per iteration order of the decoded topic map
MemberAssignments(m, protocolType) ==
    IF IsConsumerProtocol(protocolType)
    THEN LET assignments == m.MemberAssignment
             \* lines 164-172
             Built(order) ==
                 [k \in DOMAIN order |->
                     [TopicName |-> order[k],
                      PartitionIDs |-> SortPartitionIDs(assignments.Topics[order[k]])]]
             \* lines 176-178
             ByTopic(a) ==
                 [p \in (DOMAIN a) \X (DOMAIN a) |->
                     LexLess(a[p[1]].TopicName, a[p[2]].TopicName)]
         IN  UNION {SortSlice(Built(order), ByTopic(Built(order))) :
                        order \in RangeOrders(DOMAIN assignments.Topics)}
    ELSE {<<>>}

\* lines 148-187: the loop over the member map, visiting the keys in order
RECURSIVE MembersInOrder(_, _, _)
MembersInOrder(members, protocolType, order) ==
    IF order = <<>> THEN {<<>>}
    ELSE LET id == Head(order)
             m == members[id]
         IN  {<<[ID |-> id, ClientID |-> m.ClientId, ClientHost |-> m.ClientHost,
                 Assignments |-> a]>> \o rest :
                 a \in MemberAssignments(m, protocolType),
                 rest \in MembersInOrder(members, protocolType, Tail(order))}

\* lines 144-190: the member sequences convertGroupMembers may return, one
\* per iteration order of the member map (its error result is always nil)
convertGroupMembers(members, protocolType) ==
    UNION {MembersInOrder(members, protocolType, order) :
               order \in RangeOrders(DOMAIN members)}

\* a converter that does not look at the per-group error code
IgnoreGroupError(d) == FALSE

\* line 124: the per-group error check
HasGroupError(d) == d.Err # ErrNoError

\* lines 128-138: the descriptions one raw record may be converted to
ConvertedGroups(d) ==
    {[GroupID |-> d.GroupId, State |-> d.State, ProtocolType |-> d.ProtocolType,
      Protocol |-> d.Protocol, Members |-> members] :
        members \in convertGroupMembers(d.Members, d.ProtocolType)}

\* lines 123-139: the loop over one batch, up to its first record with a
\* group-level error
RECURSIVE ConvertLoop(_)
ConvertLoop(descs) ==
    IF descs = <<>> THEN {[response |-> <<>>, err |-> NilError]}
    ELSE IF HasGroupError(Head(descs))
    THEN {[response |-> <<>>, err |-> KError(Head(descs).Err)]}
    ELSE {IF t.err # NilError THEN t
          ELSE [response |-> <<h>> \o t.response, err |-> NilError] :
              h \in ConvertedGroups(Head(descs)), t \in ConvertLoop(Tail(descs))}

\* lines 121-142: the results [response, err] of converting one batch
convertSaramaGroupDescriptions(descs) == ConvertLoop(descs)

\* ------------------------------------------------------------- state
VARIABLES
    groups,            \* the argument groups []string
    cancelled,         \* ctx.Done() is closed
    pc,                \* the caller: "resolve", "loop", "done"
    i,                 \* index of the bucketing loop (line 41)
    coordinators,      \* the client's coordinator of each group resolved so far
    calls,             \* history: the s.Client.Coordinator calls made, in order
    brokersByID,       \* line 39
    groupsByBrokerID,  \* line 40
    capacity,          \* cap(resCh), line 58
    resCh,             \* the buffered outcomes of resCh
    closed,            \* resCh has been closed
    panicked,          \* a goroutine sent on, or closed, a closed channel
    wg,                \* the WaitGroup counter
    worker,            \* per broker: "none", "call", "send", "exit", "done"
    outcome,           \* per broker: the response its worker built (lines 71-82)
    requests,          \* history: per broker, the describe-requests it received
    closer,            \* the goroutine of lines 86-89: "none", "wait", "done"
    descriptions,      \* line 92
    arrived,           \* history: the outcomes received by the loop, in order
    cancelPhase,       \* history: where the call was when ctx was cancelled
    ret,               \* the values returned to the caller
    cgPc,              \* a call of convertGroupMembers: "idle", "range", "done"
    cgMembers,         \* its argument members
    cgProtocolType,    \* its argument protocolType
    cgResponse,        \* response[0:counter] (lines 145-147)
    cgDecodeCalls,     \* history: the member IDs GetMemberAssignment was called for
    cgNilLists         \* history: the member IDs emitted with a nil Assignments

convVars == <<cgPc, cgMembers, cgProtocolType, cgResponse, cgDecodeCalls, cgNilLists>>

describeVars == <<groups, cancelled, pc, i, coordinators, calls, brokersByID,
                  groupsByBrokerID, capacity, resCh, closed, panicked, wg, worker,
                  outcome, requests, closer, descriptions, arrived, cancelPhase, ret>>

vars == <<describeVars, convVars>>

callerVars == <<pc, i, coordinators, calls, brokersByID, groupsByBrokerID, capacity,
                descriptions, arrived, ret>>

\* ------------------------------------------------- the return statements
Return(descs, isNil, err) == [descriptions |-> descs, isNil |-> isNil, err |-> err]

\* the value of ret while the call has not returned
NotReturned == Return(<<>>, TRUE, NilError)

\* a bucketing loop that swallows the lookup error
CoordinatorFailedReturnsNil(err) == Return(<<>>, TRUE, NilError)

\* line 44: return nil, err
CoordinatorFailedReturn(err) == Return(<<>>, TRUE, err)

\* a loop that passes the outcome's error on without naming the broker
BrokerFailedReturnsBare(d) == Return(<<>>, TRUE, d.Err)

\* line 102: return nil, fmt.Errorf("broker with id '%v' failed ...", d.BrokerID, d.Err)
BrokerFailedReturn(d) ==
    Return(<<>>, TRUE,
           [kind |-> "broker", broker |-> d.BrokerID, group |-> <<>>, code |-> ErrNoError])

\* a loop that hands back what it has aggregated together with the error
ConvertFailedReturnsPartial(err) == Return(descriptions, FALSE, err)

\* line 107: return nil, err
ConvertFailedReturn(err) == Return(<<>>, TRUE, err)

\* a loop that leaves the select on cancellation and returns what it has
CancelledBreaksLoop == Return(descriptions, FALSE, NilError)

\* line 112: return nil, fmt.Errorf("context has been cancelled")
CancelledReturn ==
    Return(<<>>, TRUE,
           [kind |-> "cancelled", broker |-> 0, group |-> <<>>, code |-> ErrNoError])

\* line 118: return descriptions, nil
SuccessReturn(descs) == Return(descs, FALSE, NilError)

\* ------------------------------------------------------ pieces of the code
\* a bucketing loop that overwrites the broker's batch instead of appending
OverwriteGroup(byBroker, id, group) == (id :> <<group>>) @@ byBroker

\* line 49: groupsByBrokerID[id] = append(groupsByBrokerID[id], group)
AppendGroup(byBroker, id, group) ==
    IF id \in DOMAIN byBroker
    THEN [byBroker EXCEPT ![id] = Append(@, group)]
    ELSE byBroker @@ (id :> <<group>>)

\* line 68: req := &sarama.DescribeGroupsRequest{Groups: grps}
DescribeGroupsRequest(grps) == [Groups |-> grps]

\* lines 71-82: the response record a worker sends
Response(err, rawGroups, id) == [Err |-> err, Groups |-> rawGroups, BrokerID |-> id]

NoResponse == Response(NilError, <<>>, 0)

\* a loop that does not look at the outcome's error
IgnoreTransportError(d) == FALSE

\* line 101: d.Err != nil
IsTransportError(d) == d.Err # NilError

\* line 116: the less function handed to sort.Slice
ByGroupID(descs) ==
    [p \in (DOMAIN descs) \X (DOMAIN descs) |->
        LexLess(descs[p[1]].GroupID, descs[p[2]].GroupID)]

\* a return without the final sort
NoSort(descs) == {descs}

\* line 116: what sort.Slice may leave in descriptions
SortDescriptions(descs) == SortSlice(descs, ByGroupID(descs))

\* an unbuffered result channel
Unbuffered(byBroker) == 0

\* a channel with room for a single outcome
SingleSlot(byBroker) == 1

\* line 58: the capacity of resCh, len(groupsByBrokerID)
ChannelCapacity(byBroker) == Cardinality(DOMAIN byBroker)

\* a wait group that also counts the closing goroutine
CountsCloser(byBroker) == Cardinality(DOMAIN byBroker) + 1

\* a wait group counted once before the loop rather than once per worker
AddsOnce(byBroker) == 1

\* line 64: wg.Add(1) runs once per key of groupsByBrokerID
WaitGroupAdds(byBroker) == Cardinality(DOMAIN byBroker)

\* a closing goroutine that does not wait for the workers
NoWait(counter) == TRUE

\* line 87: wg.Wait() returns when the counter is zero
WaitReturns(counter) == counter = 0

\* a loop that keeps only the batch converted last
KeepConverted(descs, converted) == converted

\* line 109: descriptions = append(descriptions, converted...)
AppendConverted(descs, converted) == descs \o converted

\* the batches a broker may answer a request with: one raw record per
\* requested group ID, the same record for the same group
BrokerAnswers(req) ==
    {[k \in DOMAIN req.Groups |-> RawGroup(req.Groups[k], kinds[req.Groups[k]])] :
        kinds \in [Range(req.Groups) -> RawKinds]}

\* ---------------------------------------------------------------- Init
DescribeInit ==
    /\ groups \in GroupInputs
    /\ cancelled = FALSE
    /\ pc = "resolve"
    /\ i = 1
    /\ coordinators = [g \in {} |-> 0]
    /\ calls = <<>>
    /\ brokersByID = [b \in {} |-> 0]
    /\ groupsByBrokerID = [b \in {} |-> <<>>]
    /\ capacity = 0
    /\ resCh = <<>>
    /\ closed = FALSE
    /\ panicked = FALSE
    /\ wg = 0
    /\ worker = [b \in BrokerIDs |-> "none"]
    /\ outcome = [b \in BrokerIDs |-> NoResponse]
    /\ requests = [b \in BrokerIDs |-> <<>>]
    /\ closer = "none"
    /\ descriptions = <<>>
    /\ arrived = <<>>
    /\ cancelPhase = "never"
    /\ ret = NotReturned

\* no call of convertGroupMembers is observed on its own
ConverterIdle ==
    /\ cgPc = "idle"
    /\ cgMembers = NoMembers
    /\ cgProtocolType = ""
    /\ cgResponse = <<>>
    /\ cgDecodeCalls = <<>>
    /\ cgNilLists = {}

Init == DescribeInit /\ ConverterIdle

\* -------------------------------------------------------------- actions
\* lines 41-50, one iteration: the coordinator lookup fails
ResolveFails ==
    /\ pc = "resolve"
    /\ i <= Len(groups)
    /\ calls' = Append(calls, [group |-> groups[i], ok |-> FALSE])
    /\ ret' = CoordinatorFailedReturn(CoordinatorError(groups[i]))
    /\ pc' = "done"
    /\ UNCHANGED convVars
    /\ UNCHANGED <<groups, cancelled, i, coordinators, brokersByID, groupsByBrokerID,
                   capacity, resCh, closed, panicked, wg, worker, outcome, requests,
                   closer, descriptions, arrived, cancelPhase>>

\* lines 41-50, one iteration: the lookup returns the group's coordinator
Resolve ==
    /\ pc = "resolve"
    /\ i <= Len(groups)
    /\ \E id \in BrokerIDs :
        /\ groups[i] \in DOMAIN coordinators => id = coordinators[groups[i]]
        /\ coordinators' = (groups[i] :> id) @@ coordinators
        /\ brokersByID' = (id :> id) @@ brokersByID
        /\ groupsByBrokerID' = AppendGroup(groupsByBrokerID, id, groups[i])
    /\ calls' = Append(calls, [group |-> groups[i], ok |-> TRUE])
    /\ i' = i + 1
    /\ UNCHANGED convVars
    /\ UNCHANGED <<groups, cancelled, pc, capacity, resCh, closed, panicked, wg, worker,
                   outcome, requests, closer, descriptions, arrived, cancelPhase, ret>>

\* lines 58-92: make the channel, start one worker per key of
\* groupsByBrokerID and the closing goroutine, make descriptions
Start ==
    /\ pc = "resolve"
    /\ i > Len(groups)
    /\ capacity' = ChannelCapacity(groupsByBrokerID)
    /\ wg' = WaitGroupAdds(groupsByBrokerID)
    /\ worker' = [b \in BrokerIDs |->
                     IF b \in DOMAIN groupsByBrokerID THEN "call" ELSE "none"]
    /\ closer' = "wait"
    /\ descriptions' = <<>>
    /\ pc' = "loop"
    /\ UNCHANGED convVars
    /\ UNCHANGED <<groups, cancelled, i, coordinators, calls, brokersByID,
                   groupsByBrokerID, resCh, closed, panicked, outcome, requests,
                   arrived, cancelPhase, ret>>

\* lines 68-82: broker.DescribeGroups(req) returns an error or a batch, and
\* the worker builds its response
WorkerCall(b) ==
    /\ worker[b] = "call"
    /\ LET req == DescribeGroupsRequest(groupsByBrokerID[b])
       IN  /\ requests' = [requests EXCEPT ![b] = Append(@, req)]
           /\ \/ outcome' = [outcome EXCEPT
                                ![b] = Response(TransportError(b), <<>>, brokersByID[b])]
              \/ \E r \in BrokerAnswers(req) :
                    outcome' = [outcome EXCEPT
                                   ![b] = Response(NilError, r, brokersByID[b])]
    /\ worker' = [worker EXCEPT ![b] = "send"]
    /\ UNCHANGED convVars
    /\ UNCHANGED <<groups, cancelled, callerVars, resCh, closed, panicked, wg, closer,
                   cancelPhase>>

\* lines 71 and 78: resCh <- response{...}; blocks while the buffer is full
WorkerSend(b) ==
    /\ worker[b] = "send"
    /\ closed \/ Len(resCh) < capacity
    /\ IF closed
       THEN panicked' = TRUE /\ UNCHANGED resCh
       ELSE resCh' = Append(resCh, outcome[b]) /\ UNCHANGED panicked
    /\ worker' = [worker EXCEPT ![b] = "exit"]
    /\ UNCHANGED convVars
    /\ UNCHANGED <<groups, cancelled, callerVars, closed, wg, outcome, requests, closer,
                   cancelPhase>>

\* line 66: the deferred wg.Done()
WorkerDone(b) ==
    /\ worker[b] = "exit"
    /\ wg' = wg - 1
    /\ worker' = [worker EXCEPT ![b] = "done"]
    /\ UNCHANGED convVars
    /\ UNCHANGED <<groups, cancelled, callerVars, resCh, closed, panicked, outcome,
                   requests, closer, cancelPhase>>

\* lines 86-89: wg.Wait() returns, close(resCh)
Close ==
    /\ closer = "wait"
    /\ WaitReturns(wg)
    /\ IF closed THEN panicked' = TRUE ELSE UNCHANGED panicked
    /\ closed' = TRUE
    /\ closer' = "done"
    /\ UNCHANGED convVars
    /\ UNCHANGED <<groups, cancelled, callerVars, resCh, wg, worker, outcome, requests,
                   cancelPhase>>

\* lines 96-109: the select takes an outcome from resCh
Receive ==
    /\ pc = "loop"
    /\ resCh # <<>>
    /\ LET d == Head(resCh)
       IN  /\ resCh' = Tail(resCh)
           /\ arrived' = Append(arrived, d)
           /\ IF IsTransportError(d)
              THEN /\ ret' = BrokerFailedReturn(d)
                   /\ pc' = "done"
                   /\ UNCHANGED descriptions
              ELSE \E c \in convertSaramaGroupDescriptions(d.Groups) :
                      IF c.err # NilError
                      THEN /\ ret' = ConvertFailedReturn(c.err)
                           /\ pc' = "done"
                           /\ UNCHANGED descriptions
                      ELSE /\ descriptions' = AppendConverted(descriptions, c.response)
                           /\ UNCHANGED <<ret, pc>>
    /\ UNCHANGED convVars
    /\ UNCHANGED <<groups, cancelled, i, coordinators, calls, brokersByID,
                   groupsByBrokerID, capacity, closed, panicked, wg, worker, outcome,
                   requests, closer, cancelPhase>>

\* lines 96-99 and 116-118: the select finds resCh closed and drained;
\* break Loop, sort, return
ReceiveClosed ==
    /\ pc = "loop"
    /\ resCh = <<>>
    /\ closed
    /\ \E sorted \in SortDescriptions(descriptions) :
        /\ descriptions' = sorted
        /\ ret' = SuccessReturn(sorted)
    /\ pc' = "done"
    /\ UNCHANGED convVars
    /\ UNCHANGED <<groups, cancelled, i, coordinators, calls, brokersByID,
                   groupsByBrokerID, capacity, resCh, closed, panicked, wg, worker,
                   outcome, requests, closer, arrived, cancelPhase>>

\* lines 110-112: the select takes ctx.Done()
ContextDone ==
    /\ pc = "loop"
    /\ cancelled
    /\ ret' = CancelledReturn
    /\ pc' = "done"
    /\ UNCHANGED convVars
    /\ UNCHANGED <<groups, cancelled, i, coordinators, calls, brokersByID,
                   groupsByBrokerID, capacity, resCh, closed, panicked, wg, worker,
                   outcome, requests, closer, descriptions, arrived, cancelPhase>>

\* the caller of DescribeConsumerGroups cancels ctx while the call runs
Cancel ==
    /\ ~cancelled
    /\ pc # "done"
    /\ cancelled' = TRUE
    /\ cancelPhase' = IF pc = "resolve" THEN "resolve"
                      ELSE IF closed THEN "closed"
                      ELSE IF \E b \in BrokerIDs : worker[b] \in {"call", "send"}
                           THEN "pending"
                           ELSE "sent"
    /\ UNCHANGED convVars
    /\ UNCHANGED <<groups, callerVars, resCh, closed, panicked, wg, worker, outcome,
                   requests, closer>>

Next ==
    \/ ResolveFails
    \/ Resolve
    \/ Start
    \/ \E b \in BrokerIDs : WorkerCall(b)
    \/ \E b \in BrokerIDs : WorkerSend(b)
    \/ \E b \in BrokerIDs : WorkerDone(b)
    \/ Close
    \/ Receive
    \/ ReceiveClosed
    \/ ContextDone
    \/ Cancel

Spec == Init /\ [][Next]_vars

\* the steps of the calling goroutine, of worker b and of the closing goroutine
Caller == ResolveFails \/ Resolve \/ Start \/ Receive \/ ReceiveClosed \/ ContextDone
WorkerAfterCall(b) == WorkerSend(b) \/ WorkerDone(b)

\* the calling goroutine can take a step: it is resolving coordinators, or
\* a case of its select (lines 95-112) is ready
CallerEnabled ==
    \/ pc = "resolve"
    \/ pc = "loop" /\ (resCh # <<>> \/ closed \/ cancelled)

\* weak fairness of Caller, with ENABLED <<Caller>>_vars written out
CallerFair == []<>(~CallerEnabled) \/ []<><<Caller>>_vars

\* the Go scheduler runs every goroutine that can take a step; a worker's
\* broker.DescribeGroups call may never return
Fairness ==
    /\ CallerFair
    /\ WF_vars(Close)
    /\ \A b \in BrokerIDs : WF_vars(WorkerAfterCall(b))

FairSpec == Spec /\ Fairness

\* FairSpec with every broker call returning
LiveSpec == FairSpec /\ \A b \in BrokerIDs : WF_vars(WorkerCall(b))

\* ------------------------------------- convertGroupMembers on its own
\* the arguments of convertGroupMembers: member maps with up to two
\* members, whose payloads decode fully, to nothing, with an error and a
\* partial topic map, or to a partition list that repeats an ID
MemberIDs == {"m1", "m2"}
ProtocolTypes == {"consumer", "connect", ""}
DecodedRepeated == [Topics |-> (TopicT :> <<1, 0, 1>>), Err |-> FALSE]
Payloads == {DecodedFull, DecodedNone, FailedPartial, DecodedRepeated}
MemberMaps ==
    UNION {[ids -> {RawMember("c1", p) : p \in Payloads}] : ids \in SUBSET MemberIDs}

\* lines 180-185: the member description built for map entry (id, m)
ConvertedMember(id, m, resultAssignments) ==
    [ID |-> id, ClientID |-> m.ClientId, ClientHost |-> m.ClientHost,
     Assignments |-> resultAssignments]

\* the map keys the range loop of line 148 has visited
Visited == {cgResponse[k].ID : k \in DOMAIN cgResponse}

ConvertInit ==
    /\ DescribeInit
    /\ groups = <<>>
    /\ cgPc = "range"
    /\ cgMembers \in MemberMaps
    /\ cgProtocolType \in ProtocolTypes
    /\ cgResponse = <<>>
    /\ cgDecodeCalls = <<>>
    /\ cgNilLists = {}

\* lines 148-187, one iteration: the range loop yields a key it has not
\* visited; resultAssignments is made non-nil (line 157), filled when the
\* protocol type is "consumer" and sorted, and the member is stored
RangeMember ==
    /\ cgPc = "range"
    /\ \E id \in (DOMAIN cgMembers) \ Visited :
        /\ \E a \in MemberAssignments(cgMembers[id], cgProtocolType) :
              cgResponse' = Append(cgResponse, ConvertedMember(id, cgMembers[id], a))
        /\ cgDecodeCalls' = IF IsConsumerProtocol(cgProtocolType)
                            THEN Append(cgDecodeCalls, id)
                            ELSE cgDecodeCalls
    /\ UNCHANGED <<cgPc, cgMembers, cgProtocolType, cgNilLists, describeVars>>

\* line 189: the range loop is over, return response, nil
ConvertReturn ==
    /\ cgPc = "range"
    /\ Visited = DOMAIN cgMembers
    /\ cgPc' = "done"
    /\ UNCHANGED <<cgMembers, cgProtocolType, cgResponse, cgDecodeCalls, cgNilLists,
                   describeVars>>

ConvertNext == RangeMember \/ ConvertReturn

ConvertSpec == ConvertInit /\ [][ConvertNext]_vars

\* ---------------------------------------------------- claims: vocabulary
Returned == pc = "done"
Succeeded == Returned /\ ret.err = NilError
ReturnedNothing == ret.isNil /\ ret.descriptions = <<>>

\* the brokers a worker was started for
Workers == {b \in BrokerIDs : worker[b] # "none"}

\* the describe-request of worker b returned a transport error
TransportFailed(b) == outcome[b].Err.kind = "transport"

\* the bucketing loop has resolved every group of the input
AllResolved == i > Len(groups)

\* the distinct coordinating brokers of the input, and the group IDs that
\* resolved to broker b
Coordinators == {coordinators[groups[k]] : k \in 1..Len(groups)}
ResolvedTo(b) == {groups[k] : k \in {j \in 1..Len(groups) : coordinators[groups[j]] = b}}

RequestsIssued == Cardinality({b \in BrokerIDs : requests[b] # <<>>})

\* the raw records of worker b's batch that carry no group-level error
Healthy(r) == r.Err = ErrNoError

\* ---------------------------------------------------------------- C1
\* C1: fail-fast on broker error. The call never returns successfully in a
\* run in which a worker's describe-request returns a transport error: a
\* successful return happens only when every started worker has its outcome
\* and none of them is an error; a call that has returned with some errored
\* worker has returned an error and no descriptions.
C1_FailFastOnBrokerError ==
    /\ Succeeded => \A b \in Workers : worker[b] # "call" /\ ~TransportFailed(b)
    /\ (Returned /\ \E b \in Workers : worker[b] # "call" /\ TransportFailed(b))
           => ret.err # NilError /\ ReturnedNothing

\* one broker failed after the other broker's healthy batch was aggregated
C1_Witness ==
    /\ Returned
    /\ ret.err.kind = "broker"
    /\ descriptions # <<>>
    /\ \E b, c \in Workers :
        /\ b # c
        /\ TransportFailed(b)
        /\ worker[c] = "done"
        /\ ~TransportFailed(c)
        /\ \A k \in DOMAIN outcome[c].Groups : Healthy(outcome[c].Groups[k])

C3_Batching ==
    AllResolved =>
        /\ \A b \in BrokerIDs :
            /\ Len(requests[b]) <= 1
            /\ requests[b] # <<>> =>
                /\ b \in Coordinators
                /\ Range(requests[b][1].Groups) = ResolvedTo(b)
        /\ (pc # "resolve" /\ \A b \in BrokerIDs : worker[b] # "call") =>
            /\ RequestsIssued = Cardinality(Coordinators)
            /\ \A b \in Coordinators : Len(requests[b]) = 1

\* three groups on two brokers: two requests, one of them for two groups
C3_Witness ==
    /\ AllResolved
    /\ pc # "resolve"
    /\ \A b \in BrokerIDs : worker[b] # "call"
    /\ Len(groups) = 3
    /\ Cardinality(Coordinators) = 2
    /\ RequestsIssued = 2
    /\ \E b \in BrokerIDs : requests[b] # <<>> /\ Len(requests[b][1].Groups) = 2

\* ---------------------------------------------------------------- C4
\* the batches of the started workers, in ascending order of broker ID
RECURSIVE BatchesFrom(_)
BatchesFrom(b) ==
    IF b > MaxBrokers THEN <<>>
    ELSE (IF b \in Workers THEN outcome[b].Groups ELSE <<>>) \o BatchesFrom(b + 1)

\* one result the call can return for the input, the coordinators and the
\* broker responses of this run: the one of the run in which the outcomes
\* arrive in ascending order of broker ID
CanonicalOutput ==
    LET c == CHOOSE x \in convertSaramaGroupDescriptions(BatchesFrom(1)) : TRUE
    IN  CHOOSE sorted \in SortDescriptions(c.response) : TRUE

\* C4: determinism. For a fixed input, coordinator mapping and error-free
\* broker responses, without cancellation, the call returns the identical
\* sequence of descriptions in every run: every successful return equals
\* CanonicalOutput, which is the return of one of these runs.
C4_Determinism ==
    (Succeeded /\ ~cancelled) => ret.descriptions = CanonicalOutput

\* ---------------------------------------------------------------- C5
\* C5: sorted output. A successful return is ordered by groupID ascending: no
\* description's groupID is greater than its successor's.
C5_SortedOutput ==
    Succeeded =>
        \A k \in 1..(Len(ret.descriptions) - 1) :
            ~LexLess(ret.descriptions[k + 1].GroupID, ret.descriptions[k].GroupID)

\* success after the batch of the greater group ID arrived first
C5_Witness ==
    /\ Succeeded
    /\ Len(arrived) = 2
    /\ arrived[1].Groups # <<>>
    /\ arrived[2].Groups # <<>>
    /\ LexLess(arrived[2].Groups[1].GroupId, arrived[1].Groups[1].GroupId)
    /\ Len(ret.descriptions) >= 2

\* ---------------------------------------------------------------- C6
\* the raw records the brokers returned in this run
RawRecords == UNION {Range(outcome[b].Groups) : b \in Workers}

\* C6: graceful decode degradation. In a returned description of a
\* "consumer" group, a member whose payload failed to decode has an empty
\* assignment list; and the call returns a group-level error only when a
\* raw record carries one, never because of a decode failure.
C6_DecodeDegradation ==
    /\ Succeeded =>
        \A k \in DOMAIN ret.descriptions, r \in RawRecords :
            LET desc == ret.descriptions[k]
            IN  (r.GroupId = desc.GroupID /\ r.ProtocolType = "consumer") =>
                    \A j \in DOMAIN desc.Members :
                        r.Members[desc.Members[j].ID].MemberAssignment.Err
                            => desc.Members[j].Assignments = <<>>
    /\ (Returned /\ ret.err.kind = "kerror") => \E r \in RawRecords : ~Healthy(r)

\* ---------------------------------------------------------------- C7
\* C7: a group-level error is fatal. The call returns successfully only when
\* no raw record of any worker's batch carries a per-group error code; a call
\* that received a batch with such a record has returned an error and no
\* descriptions.
C7_GroupErrorFatal ==
    /\ Succeeded =>
        \A b \in Workers : \A k \in DOMAIN outcome[b].Groups : Healthy(outcome[b].Groups[k])
    /\ (Returned /\ \E n \in DOMAIN arrived :
                        \E k \in DOMAIN arrived[n].Groups : ~Healthy(arrived[n].Groups[k]))
           => ret.err # NilError /\ ReturnedNothing

\* the call failed on a batch that holds a healthy group before the one
\* with the error code
C7_Witness ==
    /\ Returned
    /\ ret.err.kind = "kerror"
    /\ arrived # <<>>
    /\ LET last == arrived[Len(arrived)].Groups
       IN  /\ Len(last) = 2
           /\ Healthy(last[1])
           /\ ~Healthy(last[2])

\* ---------------------------------------------------------------- C8
\* C8: resolution fail-fast. The calls to the coordinator lookup follow the
\* input order; once one has failed it is the last one made, the call has
\* returned its error and no descriptions, and no worker and no closing
\* goroutine was started and no describe-request issued.
C8_ResolutionFailFast ==
    /\ Len(calls) <= Len(groups)
    /\ \A k \in DOMAIN calls : calls[k].group = groups[k]
    /\ \A k \in DOMAIN calls :
        ~calls[k].ok =>
            /\ k = Len(calls)
            /\ Returned
            /\ ret.err = CoordinatorError(groups[k])
            /\ ReturnedNothing
            /\ \A b \in BrokerIDs : worker[b] = "none" /\ requests[b] = <<>>
            /\ closer = "none"

\* the second of three lookups failed after the first had succeeded
C8_Witness ==
    /\ Returned
    /\ Len(groups) = 3
    /\ Len(calls) = 2
    /\ calls[1].ok
    /\ ~calls[2].ok

\* ---------------------------------------------------------------- C9
\* C9: unique group IDs. In a successful return no groupID appears in more
\* than one description, whatever the input.
C9_UniqueGroupIDs ==
    Succeeded =>
        \A j, k \in DOMAIN ret.descriptions :
            j # k => ret.descriptions[j].GroupID # ret.descriptions[k].GroupID

\* ---------------------------------------------------------------- C10
\* C10: all-or-nothing. Every return is either a non-nil sequence with a nil
\* error, or no descriptions with an error.
C10_AllOrNothing ==
    Returned =>
        \/ ~ret.isNil /\ ret.err = NilError
        \/ ReturnedNothing /\ ret.err # NilError

\* a group-level error after the batch of another broker was aggregated
C10_Witness ==
    /\ Returned
    /\ ret.err.kind = "kerror"
    /\ descriptions # <<>>
    /\ ReturnedNothing

\* ---------------------------------------------------------------- C11
\* the outcomes sent so far: those received by the loop and those buffered
Sent == arrived \o resCh

\* how often x occurs in the sequence s
Occurrences(s, x) == Cardinality({k \in DOMAIN s : s[k] = x})

RECURSIVE RawCountFrom(_)
RawCountFrom(b) ==
    IF b > MaxBrokers THEN 0
    ELSE (IF b \in Workers THEN Len(outcome[b].Groups) ELSE 0) + RawCountFrom(b + 1)

\* the group IDs of the raw records over all brokers, and of a result
RawGroupIDs == [k \in DOMAIN BatchesFrom(1) |-> BatchesFrom(1)[k].GroupId]
ResultGroupIDs(descs) == [k \in DOMAIN descs |-> descs[k].GroupID]

\* C11: complete aggregation. A successful return happens only after the
\* channel was closed and the outcome of every started worker received; the
\* result then holds one description per raw record of the brokers: as many
\* descriptions as raw records, each group ID as often as in the raw records.
C11_CompleteAggregation ==
    Succeeded =>
        /\ closed
        /\ resCh = <<>>
        /\ \A b \in Workers : Occurrences(arrived, outcome[b]) = 1
        /\ Len(arrived) = Cardinality(Workers)
        /\ Len(ret.descriptions) = RawCountFrom(1)
        /\ \A g \in GroupIDs :
            Occurrences(ResultGroupIDs(ret.descriptions), g) = Occurrences(RawGroupIDs, g)

\* success with the batches of two brokers, three raw records in all
C11_Witness ==
    /\ Succeeded
    /\ Cardinality(Workers) = 2
    /\ Len(arrived) = 2
    /\ Len(ret.descriptions) = 3

\* ---------------------------------------------------------------- C13
\* C13: workers never block on send. The capacity of the channel is the
\* number of workers; the buffer never holds more; a worker that has left
\* its send has sent exactly one outcome and one that has not has sent none;
\* an outcome carries an error or a group list, never both; and a worker at
\* its send finds the channel open with room in the buffer, whether or not
\* the caller has returned.
C13_SendNeverBlocks ==
    pc # "resolve" =>
        /\ capacity = Cardinality(Workers)
        /\ Len(resCh) <= capacity
        /\ \A b \in Workers :
            /\ Cardinality({k \in DOMAIN Sent : Sent[k].BrokerID = b})
                   = IF worker[b] \in {"exit", "done"} THEN 1 ELSE 0
            /\ worker[b] \in {"exit", "done"} => Occurrences(Sent, outcome[b]) = 1
            /\ worker[b] # "call" =>
                   (outcome[b].Err # NilError => outcome[b].Groups = <<>>)
            /\ worker[b] = "send" => ~closed /\ Len(resCh) < capacity

\* a worker at its send after the caller has returned, another outcome
\* sitting in the buffer
C13_Witness ==
    /\ Returned
    /\ resCh # <<>>
    /\ \E b \in Workers : worker[b] = "send"

\* ---------------------------------------------------------------- C14
\* C14: close ordering. No goroutine sends on or closes a closed channel;
\* the channel is closed only by the closing goroutine, after every worker
\* has sent and run its wg.Done(), and stays closed; and the loop finds the
\* channel closed only when it has received every worker's outcome.
C14_CloseOrdering ==
    /\ [](/\ ~panicked
          /\ closed <=> closer = "done"
          /\ closed => wg = 0 /\ \A b \in Workers : worker[b] = "done"
          /\ \A b \in Workers : worker[b] = "send" => ~closed)
    /\ [][/\ closed => closed'
          /\ closed' # closed => closer = "wait" /\ closer' = "done"
          /\ (pc = "loop" /\ pc' = "done" /\ ret'.err = NilError)
                 => closed /\ Len(arrived) = Cardinality(Workers)]_vars

\* the channel closed after two workers, the loop still to receive
C14_Witness ==
    /\ closed
    /\ Cardinality(Workers) = 2
    /\ pc = "loop"
    /\ Len(resCh) = 2

\* ---------------------------------------------------------------- C18
\* C18: the reported error is the first in arrival order and names its
\* broker. When the last outcome the loop received carries a transport
\* error, the call has returned an error carrying the ID of the broker whose
\* worker built that outcome, every outcome received before it was free of
\* transport errors, and after the return nothing is received or aggregated.
C18_FirstErrorNamesBroker ==
    /\ [](arrived # <<>> =>
            LET d == arrived[Len(arrived)]
            IN  d.Err # NilError =>
                    /\ Returned
                    /\ ret.err.kind = "broker"
                    /\ ret.err.broker = d.BrokerID
                    /\ outcome[d.BrokerID] = d
                    /\ TransportFailed(d.BrokerID)
                    /\ \A k \in 1..(Len(arrived) - 1) : arrived[k].Err = NilError)
    /\ []((Returned /\ ret.err.kind = "broker") =>
            arrived # <<>> /\ arrived[Len(arrived)].Err # NilError)
    /\ [][Returned => arrived' = arrived /\ descriptions' = descriptions /\ ret' = ret]_vars

\* both brokers failed; the call reports the second broker, whose outcome
\* arrived first
C18_Witness ==
    /\ Returned
    /\ ret.err.kind = "broker"
    /\ ret.err.broker = 2
    /\ Len(arrived) = 1
    /\ resCh # <<>>
    /\ resCh[1].Err # NilError
    /\ resCh[1].BrokerID = 1

\* ---------------------------------------------------------------- C15
\* C15: no task leak after abandonment. A worker whose broker call has
\* returned completes its send and terminates, also when the caller has
\* already returned; once no worker is in its broker call the closing
\* goroutine closes the channel and terminates; and what is sent after the
\* return never reaches the caller: the returned values do not change.
C15_NoTaskLeak ==
    /\ \A b \in BrokerIDs : (worker[b] = "send") ~> (worker[b] = "done")
    /\ (closer = "wait" /\ \A b \in BrokerIDs : worker[b] # "call") ~> (closer = "done")
    /\ [][Returned => ret' = ret /\ arrived' = arrived]_vars

\* the caller returned an error while a worker was in flight; that worker
\* and the closing goroutine have terminated, the outcome left in the buffer
C15_Witness ==
    /\ Returned
    /\ ret.err.kind \in {"broker", "kerror", "cancelled"}
    /\ Cardinality(Workers) = 2
    /\ \A b \in Workers : worker[b] = "done"
    /\ closer = "done"
    /\ closed
    /\ resCh # <<>>

\* ---------------------------------------------------------------- C16
\* C16: termination without cancellation. When every broker call returns
\* and the context is never cancelled the call returns, with a result or an
\* error; for the empty input no worker is started, the channel has capacity
\* zero and is closed, and the call returns an empty, non-nil slice and no
\* error.
C16_Termination ==
    /\ ([]~cancelled) => <>Returned
    /\ [](groups = <<>> /\ Returned /\ ~cancelled =>
              /\ Workers = {}
              /\ capacity = 0
              /\ closed
              /\ calls = <<>>
              /\ ret = SuccessReturn(<<>>)
              /\ ~ret.isNil)

\* the empty input has returned without a cancellation
C16_Witness ==
    /\ groups = <<>>
    /\ Returned
    /\ ~cancelled
    /\ closer = "done"

\* ---------------------------------------------------------------- C17
\* the call has returned, ctx was not cancelled, and the
\* broker.DescribeGroups call of some worker has not returned
ReturnedWithCallPending ==
    Returned /\ ~cancelled /\ \E b \in BrokerIDs : worker[b] = "call"

\* C17 as stated, its converse half: without a cancellation the call does
\* not return while a broker call has not returned.
C17_NeverReturnsWithoutCancel == ~ReturnedWithCallPending

\* C17, amended: once the loop is reached and ctx is cancelled the call
\* returns, also when broker calls never return; without a cancellation and
\* with a broker call that has not returned the call returns only the
\* transport or group-level error of another broker's outcome, never a
\* result.
C17_CancelUnblocks ==
    /\ (pc = "loop" /\ cancelled) ~> Returned
    /\ [](ReturnedWithCallPending =>
              /\ ret.err.kind \in {"broker", "kerror"}
              /\ ReturnedNothing
              /\ arrived # <<>>)

\* cancelled in the loop with no broker call returned: the call has returned
\* the cancellation error and the workers are still in their calls
C17_Witness ==
    /\ Returned
    /\ cancelled
    /\ ret = CancelledReturn
    /\ Cardinality(Workers) = 2
    /\ \A b \in Workers : worker[b] = "call"

\* ---------------------------------------------------------------- C12
\* the partition IDs a payload may hold
PartitionIDValues == 0..2

\* C12: assignment ordering. For every member emitted for a "consumer"
\* group whose payload decoded without error, the assignments are in
\* strictly ascending topic order, one per key of the decoded topic map, and
\* each assignment's partition IDs are in ascending order and hold every ID
\* as often as the decoded list of that topic.
C12_AssignmentOrdering ==
    \A k \in DOMAIN cgResponse :
        LET decoded == cgMembers[cgResponse[k].ID].MemberAssignment
            a == cgResponse[k].Assignments
        IN  (cgProtocolType = "consumer" /\ ~decoded.Err) =>
                /\ Len(a) = Cardinality(DOMAIN decoded.Topics)
                /\ {a[j].TopicName : j \in DOMAIN a} = DOMAIN decoded.Topics
                /\ \A j1, j2 \in DOMAIN a :
                       j1 < j2 => LexLess(a[j1].TopicName, a[j2].TopicName)
                /\ \A j \in DOMAIN a :
                    LET ids == a[j].PartitionIDs
                        raw == decoded.Topics[a[j].TopicName]
                    IN  /\ \A n1, n2 \in DOMAIN ids : n1 < n2 => ids[n1] <= ids[n2]
                        /\ Len(ids) = Len(raw)
                        /\ \A v \in PartitionIDValues :
                               Occurrences(ids, v) = Occurrences(raw, v)

\* a converted "consumer" group with one member assigned two topics given
\* out of order and one whose partition list repeats an ID
C12_Witness ==
    /\ cgPc = "done"
    /\ cgProtocolType = "consumer"
    /\ Len(cgResponse) = 2
    /\ cgMembers["m1"].MemberAssignment = DecodedFull
    /\ cgMembers["m2"].MemberAssignment = DecodedRepeated

\* ---------------------------------------------------------------- C19
\* C19: other protocol types are never decoded. For a group whose protocol
\* type is not "consumer", GetMemberAssignment is called for no member and
\* every member is emitted with an empty, non-nil assignment list, whatever
\* its payload.
C19_NonConsumerNotDecoded ==
    cgProtocolType # "consumer" =>
        /\ cgDecodeCalls = <<>>
        /\ \A k \in DOMAIN cgResponse :
            /\ cgResponse[k].Assignments = <<>>
            /\ cgResponse[k].ID \notin cgNilLists

\* a converted "connect" group whose two members carry payloads that would
\* decode to topics
C19_Witness ==
    /\ cgPc = "done"
    /\ cgProtocolType = "connect"
    /\ Len(cgResponse) = 2
    /\ \A id \in MemberIDs : cgMembers[id].MemberAssignment.Topics # NoTopics

\* ---------------------------------------------------------------- C20
\* C20: the member order does not depend on the map iteration order. The
\* returned member sequence is the one every iteration order of the member
\* map yields; each map key is the ID of exactly one member and the
\* sequence is as long as the map has entries.
C20_MemberOrderIndependent ==
    cgPc = "done" =>
        /\ \A order \in RangeOrders(DOMAIN cgMembers) :
               cgResponse \in MembersInOrder(cgMembers, cgProtocolType, order)
        /\ Len(cgResponse) = Cardinality(DOMAIN cgMembers)
        /\ \A id \in DOMAIN cgMembers :
               Cardinality({k \in DOMAIN cgResponse : cgResponse[k].ID = id}) = 1

====
